---- MODULE Spec2Model ----
(***************************************************************************)
(* A model of recipes/openai_ner.py: the OpenAI NER suggester of the       *)
(* prodigy-openai-recipes repository.  Strings are sequences of one-       *)
(* character strings; character offsets are 0-based and half-open, as in   *)
(* Python.                                                                 *)
(***************************************************************************)
EXTENDS Integers, Sequences, FiniteSets, TLC

VARIABLES
    \* ---- parse_response (SpecParse) ----
    ptext,      \* the response text handed to parse_response
    plines,     \* the lines of the for loop not yet visited
    output,     \* parse_response's local `output`
    outLines,   \* history: the line each entry of `output` was made from
    ppc,        \* position in parse_response: "call", "loop", "returned", "idle"
    \* ---- OpenAISuggester: configuration and few-shot window ----
    labels,         \* self.labels (normalized at construction)
    max_examples,   \* self.max_examples
    examples,       \* self.examples, the few-shot window
    added,          \* history: every example handed to add_example, in call order
    lastUpdate,     \* history: the last update()/DB-load batch and the state before it
    spc,            \* position of the recipe: "files", "db", "serving", "idle"
    \* ---- stream_suggestions, _batch_sequence, _get_ner_response, _retry429 ----
    batch_size,     \* the batch_size argument
    openai_n,       \* self.openai_n, the n handed to _retry429
    stream,         \* the input stream: the texts of its items, in order
    consumed,       \* how many items _batch_sequence has taken from the stream
    buf,            \* _batch_sequence's local `batch`
    batch,          \* stream_suggestions' current `batch`
    prompts,        \* stream_suggestions' `prompts`
    responses,      \* stream_suggestions' `responses`
    emitIdx,        \* how many triples of zip(batch, prompts, responses) were yielded
    emitted,        \* the items yielded so far, as the consumer received them
    r,              \* _retry429's `r`
    i,              \* _retry429's `i`
    calls,          \* call_api() invocations of the current _retry429
    sleeps,         \* time.sleep() invocations of the current _retry429
    api,            \* how the API answers the current request
    requests,       \* history: one entry per batch request
    pc,             \* position of the generator
    \* ---- get_spacy_spans ----
    doc,            \* the Doc: its text and its tokens' character ranges
    response,       \* the response text
    allowed,        \* the `labels` argument
    pairs,          \* the (label, phrases) pairs parse_response returned
    candidates,     \* `spacy_spans` before filter_spans
    spacy_spans,    \* the returned list
    apc,            \* position in get_spacy_spans: "call", "loop" (done), "returned", "idle"
    \* ---- _find_substrings (SpecFind) ----
    ftext,          \* the `text` argument
    fsubstrings,    \* the `substrings` argument, as given
    foffsets,       \* the returned list of (start, end)
    fpc             \* position in _find_substrings: "call", "returned", "idle"

parseVars == <<ptext, plines, output, outLines, ppc>>
storeVars == <<labels, max_examples, examples, added, lastUpdate, spc>>
pipeVars == <<batch_size, openai_n, stream, consumed, buf, batch, prompts, responses,
              emitIdx, emitted, r, i, calls, sleeps, api, requests, pc>>
alignVars == <<doc, response, allowed, pairs, candidates, spacy_spans, apc>>
findVars == <<ftext, fsubstrings, foffsets, fpc>>
vars == <<parseVars, storeVars, pipeVars, alignVars, findVars>>

(***************************************************************************)
(* Python string primitives                                                *)
(***************************************************************************)
\* str.isspace() on the characters of the model
IsSpace(c) == c \in {" ", "\n"}

\* str.lower() on one character
LowerChar(c) ==
    IF c = "A" THEN "a"
    ELSE IF c = "B" THEN "b"
    ELSE IF c = "X" THEN "x"
    ELSE IF c = "Y" THEN "y"
    ELSE c

\* str.lower()
Lower(s) == [k \in 1..Len(s) |-> LowerChar(s[k])]

RECURSIVE LStrip(_)
LStrip(s) == IF s # <<>> /\ IsSpace(Head(s)) THEN LStrip(Tail(s)) ELSE s

RECURSIVE RStrip(_)
RStrip(s) ==
    IF s # <<>> /\ IsSpace(s[Len(s)]) THEN RStrip(SubSeq(s, 1, Len(s) - 1)) ELSE s

\* str.strip()
Strip(s) == RStrip(LStrip(s))

\* `c in s` for a one-character c
Contains(s, c) == \E k \in 1..Len(s) : s[k] = c

\* 1-based index of the first c in s (s contains c)
FirstIndex(s, c) == CHOOSE k \in 1..Len(s) : s[k] = c /\ \A j \in 1..(k - 1) : s[j] # c

\* str.split(c): always at least one piece, empty pieces are kept
RECURSIVE Split(_, _)
Split(s, c) ==
    IF ~Contains(s, c) THEN <<s>>
    ELSE <<SubSeq(s, 1, FirstIndex(s, c) - 1)>>
             \o Split(SubSeq(s, FirstIndex(s, c) + 1, Len(s)), c)

\* str.split(c, 1) on a string that contains c: <<before, after>>
SplitFirst(s, c) ==
    <<SubSeq(s, 1, FirstIndex(s, c) - 1), SubSeq(s, FirstIndex(s, c) + 1, Len(s))>>

(***************************************************************************)
(* Labels                                                                  *)
(***************************************************************************)
_normalize_label(label) == Lower(label)

(***************************************************************************)
(* OpenAISuggester.parse_response                                          *)
(***************************************************************************)
\* [phrase.strip() for phrase in phrases.strip().split(",")]
ParsePhrases(phrases) ==
    [k \in 1..Len(Split(Strip(phrases), ",")) |-> Strip(Split(Strip(phrases), ",")[k])]

\* One iteration of the for loop: the entries the line appends to `output`
\* (none or one).
ParseLine(line) ==
    IF line # <<>> /\ Contains(line, ":")
    THEN LET label   == _normalize_label(SplitFirst(line, ":")[1])
             phrases == SplitFirst(line, ":")[2]
         IN  IF Strip(phrases) # <<>>
             THEN <<[label |-> label, phrases |-> ParsePhrases(phrases)]>>
             ELSE <<>>
    ELSE <<>>

\* The lines the for loop iterates over
ResponseLines(text) == Split(Strip(text), "\n")

RECURSIVE ParseLines(_)
ParseLines(ls) == IF ls = <<>> THEN <<>> ELSE ParseLine(Head(ls)) \o ParseLines(Tail(ls))

\* parse_response as a function of the response text
parse_response(text) == ParseLines(ResponseLines(text))

(***************************************************************************)
(* PromptExample and the few-shot window                                   *)
(***************************************************************************)
Min(a, b) == IF a <= b THEN a ELSE b
Max(a, b) == IF a >= b THEN a ELSE b

\* s[a:b] for 0 <= a, 0 <= b
PySlice(s, a, b) == SubSeq(s, a + 1, Min(b, Len(s)))

\* s[-m:] for m >= 0; s[-0:] is the whole list
PySliceLast(s, m) == IF m = 0 THEN s ELSE SubSeq(s, Max(1, Len(s) - m + 1), Len(s))

\* PromptExample.is_flagged
is_flagged_any_answer(eg) == eg.flagged = "true" /\ eg.hasText
is_flagged(eg) == eg.flagged = "true" /\ eg.answer = "accept" /\ eg.hasText

\* entities_by_label[label].append(mention) on a defaultdict(list)
AppendMention(entities, label, mention) ==
    IF label \in DOMAIN entities
    THEN [entities EXCEPT ![label] = Append(@, mention)]
    ELSE [l \in DOMAIN entities \cup {label} |->
             IF l = label THEN <<mention>> ELSE entities[l]]

\* the loop over example.get("spans", []) of from_prodigy
RECURSIVE EntitiesByLabel(_, _, _, _)
EntitiesByLabel(spans, full_text, lbls, entities) ==
    IF spans = <<>> THEN entities
    ELSE LET span  == Head(spans)
             label == _normalize_label(span.label)
         IN  EntitiesByLabel(Tail(spans), full_text, lbls,
                 IF \E k \in 1..Len(lbls) : lbls[k] = label
                 THEN AppendMention(entities, label,
                                    PySlice(full_text, span.start, span.end))
                 ELSE entities)

NoEntities == [l \in {} |-> <<>>]

\* PromptExample.from_prodigy (the example carries a text)
from_prodigy(eg, lbls) ==
    [text |-> eg.text, entities |-> EntitiesByLabel(eg.spans, eg.text, lbls, NoEntities)]

\* OpenAISuggester.add_example: the window after adding to window exs
add_example_keep_oldest(exs, cap, example) ==
    LET appended == IF cap # 0 THEN Append(exs, example) ELSE exs
    IN  IF Len(appended) >= cap THEN SubSeq(appended, 1, cap) ELSE appended
add_example(exs, cap, example) ==
    LET appended == IF cap # 0 THEN Append(exs, example) ELSE exs
    IN  IF Len(appended) >= cap THEN PySliceLast(appended, cap) ELSE appended

\* the examples a loop `for eg in items: if is_flagged(eg): add_example(from_prodigy(eg))`
\* hands to add_example
RECURSIVE FlaggedExamples(_, _)
FlaggedExamples(items, lbls) ==
    IF items = <<>> THEN <<>>
    ELSE (IF is_flagged(Head(items)) THEN <<from_prodigy(Head(items), lbls)>> ELSE <<>>)
             \o FlaggedExamples(Tail(items), lbls)

\* add_example called once per element of news, in order
RECURSIVE AddAll(_, _, _)
AddAll(exs, cap, news) ==
    IF news = <<>> THEN exs ELSE AddAll(add_example(exs, cap, Head(news)), cap, Tail(news))

(***************************************************************************)
(* The recipe ner.openai.correct: start-up loading and the update callback *)
(***************************************************************************)
MaxCap == 2         \* largest max_examples tried
MaxAdds == 3        \* add_example calls followed per run
MaxBatchItems == 2  \* reviewed items per update()/DB batch

ConfigLabels == <<<<"X">>>>

\* reviewed items as Prodigy hands them over
ItemText == <<"a", "b">>
PlainSpans == <<>>
RichSpans ==
    <<[label |-> <<"x">>, start |-> 0, end |-> 2],
      [label |-> <<"y">>, start |-> 1, end |-> 2],
      [label |-> <<"X">>, start |-> 1, end |-> 2]>>
SpanChoices == {PlainSpans, RichSpans}

\* flagged is "true" (True), "false" (False) or "none" (key absent); hasText is
\* `"text" in example`
ReviewedItems ==
    [flagged : {"true"}, answer : {"accept"}, hasText : {TRUE}, text : {ItemText},
     spans : SpanChoices]
    \cup [flagged : {"false", "none"}, answer : {"accept"}, hasText : {TRUE},
          text : {ItemText}, spans : {RichSpans}]
    \cup [flagged : {"true"}, answer : {"reject"}, hasText : {TRUE},
          text : {ItemText}, spans : {RichSpans}]
    \cup [flagged : {"true"}, answer : {"accept"}, hasText : {FALSE}, text : {<<>>},
          spans : {PlainSpans}]

RECURSIVE SeqsUpTo(_, _)
SeqsUpTo(S, n) ==
    IF n = 0 THEN {<<>>}
    ELSE LET shorter == SeqsUpTo(S, n - 1)
         IN  shorter \cup {Append(s, x) : s \in {t \in shorter : Len(t) = n - 1}, x \in S}

ReviewedBatches == SeqsUpTo(ReviewedItems, MaxBatchItems)

\* examples of an --examples-path file
FileExamples ==
    { [text |-> <<"b">>, entities |-> [l \in {<<"x">>} |-> <<<<"b">>>>]] }

NoUpdate ==
    [items |-> <<>>, examples |-> <<>>, added |-> <<>>, done |-> FALSE, via |-> "none"]

StoreIdle ==
    /\ labels = <<>> /\ max_examples = 0 /\ examples = <<>> /\ added = <<>>
    /\ lastUpdate = NoUpdate /\ spc = "idle"

\* OpenAISuggester.__init__
StoreInit ==
    /\ labels = [k \in 1..Len(ConfigLabels) |-> _normalize_label(ConfigLabels[k])]
    /\ max_examples \in 0..MaxCap
    /\ examples = <<>>
    /\ added = <<>>
    /\ lastUpdate = NoUpdate
    /\ spc = "files"

\* for eg in examples: openai.add_example(eg)    (one iteration)
LoadFileExample ==
    /\ spc = "files"
    /\ Len(added) < MaxAdds
    /\ \E eg \in FileExamples :
        /\ examples' = add_example(examples, max_examples, eg)
        /\ added' = Append(added, eg)
    /\ UNCHANGED <<labels, max_examples, lastUpdate, spc>>

\* the loop over the example file ends
FilesLoaded ==
    /\ spc = "files"
    /\ spc' = "db"
    /\ UNCHANGED <<labels, max_examples, examples, added, lastUpdate>>

\* the effect on the window of one pass over reviewed items
AddFlagged(items, caller) ==
    /\ Len(added) + Len(items) <= MaxAdds
    /\ examples' = AddAll(examples, max_examples, FlaggedExamples(items, labels))
    /\ added' = added \o FlaggedExamples(items, labels)
    /\ lastUpdate' = [items |-> items, examples |-> examples, added |-> added,
                      done |-> TRUE, via |-> caller]

\* if max_examples >= 1: the flagged examples of the dataset are added
LoadDb ==
    /\ spc = "db"
    /\ IF max_examples >= 1
       THEN \E items \in ReviewedBatches : AddFlagged(items, "db")
       ELSE UNCHANGED <<examples, added, lastUpdate>>
    /\ spc' = "serving"
    /\ UNCHANGED <<labels, max_examples>>

\* OpenAISuggester.update
update(reviewed) ==
    /\ spc = "serving"
    /\ AddFlagged(reviewed, "update")
    /\ UNCHANGED <<labels, max_examples, spc>>

Update == \E reviewed \in ReviewedBatches : update(reviewed)

LastN(s, n) == SubSeq(s, Len(s) - n + 1, Len(s))

\* C2: the window holds exactly the last min(k, max_examples) of the k examples
\* added so far, in their order; so it never exceeds max_examples and stays
\* empty when max_examples = 0.
C2_TrailingWindow ==
    /\ examples = LastN(added, Min(Len(added), max_examples))
    /\ Len(examples) <= max_examples
    /\ (max_examples = 0 => examples = <<>>)

\* C2 witness: more examples than the capacity were added, the evicted one
\* differing from the ones kept
C2_Witness ==
    /\ max_examples = 2
    /\ Len(added) = 3
    /\ Len(examples) = 2
    /\ added[1] # added[2] /\ added[2] # added[3]

\* the admission condition of the feedback loop, in the words of the claim
Admissible(item) == item.flagged = "true" /\ item.answer = "accept" /\ item.hasText

\* C6: a pass over reviewed items adds exactly the flagged, accepted items that
\* carry a text, one example each with entities of active labels only, and
\* leaves the window unchanged when no item qualifies.
C6_FeedbackAdmission ==
    lastUpdate.done =>
        LET q     == SelectSeq(lastUpdate.items, Admissible)
            base  == Len(lastUpdate.added)
        IN  /\ Len(added) = base + Len(q)
            /\ SubSeq(added, 1, base) = lastUpdate.added
            /\ \A k \in 1..Len(q) :
                /\ added[base + k].text = q[k].text
                /\ \A l \in DOMAIN added[base + k].entities :
                       \E j \in 1..Len(labels) : labels[j] = l
            /\ (q = <<>> => examples = lastUpdate.examples)

\* C6 witness: an update whose batch mixes an admitted item that has spans of
\* active and inactive labels with a rejected but flagged item
C6_Witness ==
    /\ lastUpdate.done
    /\ lastUpdate.via = "update"
    /\ Len(lastUpdate.items) = 2
    /\ Admissible(lastUpdate.items[1])
    /\ lastUpdate.items[1].spans = RichSpans
    /\ lastUpdate.items[2].flagged = "true" /\ lastUpdate.items[2].answer = "reject"
    /\ lastUpdate.items[2].hasText
    /\ examples # lastUpdate.examples

(***************************************************************************)
(* _retry429 and the API                                                   *)
(***************************************************************************)
MaxN == 2       \* largest openai_n tried
MaxBatch == 3   \* largest batch_size tried
MaxItems == 3   \* longest input stream tried

\* HTTP status codes the API answers with
OK == 200
RateLimited == 429
ServerError == 500

\* How the API answers one request and its re-issues: 429 to every call
\* (persistent), or 429 to the first k429 calls and `final` to the later ones.
ApiModes ==
    [persistent : {TRUE}, k429 : {0}, final : {RateLimited}]
    \cup [persistent : {FALSE}, k429 : 0..(MaxN + 1), final : {OK, ServerError}]

NoApi == [persistent |-> FALSE, k429 |-> 0, final |-> 0]

\* status of the c-th call (c = 1, 2, ...) of a request
ApiStatus(mode, c) == IF mode.persistent \/ c <= mode.k429 THEN RateLimited ELSE mode.final

\* the httpx.Response of the c-th call of request number req carrying ps;
\* a success carries one completion per prompt, named by request and index
ApiResponse(mode, req, c, ps) ==
    [status  |-> ApiStatus(mode, c),
     call    |-> c,
     choices |-> IF ApiStatus(mode, c) = OK
                 THEN [k \in 1..Len(ps) |-> [request |-> req, index |-> k]]
                 ELSE <<>>]

NoResponse == [status |-> 0, call |-> 0, choices |-> <<>>]

\* the loop condition of _retry429
RetryAgainOnceMore(iv, n, resp) == iv <= n + 1 /\ resp.status = RateLimited
RetryAgain(iv, n, resp) == iv < n /\ resp.status = RateLimited

\* r.raise_for_status() raises
RaisesOnServerErrorOnly(resp) == resp.status >= 500
Raises(resp) == resp.status >= 400

(***************************************************************************)
(* stream_suggestions over _batch_sequence                                 *)
(***************************************************************************)
\* the text of the k-th input item; the items of a stream are distinct
ItemTextOf(k) == [j \in 1..k |-> "a"]

\* _get_ner_prompt: the template rendered over its three arguments
_get_ner_prompt(text, lbls, exs) == [text |-> text, labels |-> lbls, examples |-> exs]

\* if len(batch) >= batch_size
BatchFullStrict(b, size) == Len(b) > size
BatchFull(b, size) == Len(b) >= size

\* the prompt zip() pairs with the k-th item of the batch
PromptRenderedLate(ps, k, text, lbls, exs) == _get_ner_prompt(text, lbls, exs)
ZippedPrompt(ps, k, text, lbls, exs) == ps[k]

\* the response zip() pairs with the k-th item of the batch
ZippedResponse(rs, k) == rs[k]

PipeIdle ==
    /\ batch_size = 0 /\ openai_n = 0 /\ stream = <<>> /\ consumed = 0
    /\ buf = <<>> /\ batch = <<>> /\ prompts = <<>> /\ responses = <<>>
    /\ emitIdx = 0 /\ emitted = <<>> /\ r = NoResponse /\ i = 0 /\ calls = 0
    /\ sleeps = 0 /\ api = NoApi /\ requests = <<>> /\ pc = "idle"

\* openai(stream, batch_size=..., nlp=...): the generator is created, not started
PipeInit ==
    /\ batch_size \in 1..MaxBatch
    /\ openai_n \in 0..MaxN
    /\ \E len \in 0..MaxItems : stream = [k \in 1..len |-> ItemTextOf(k)]
    /\ consumed = 0
    /\ buf = <<>> /\ batch = <<>> /\ prompts = <<>> /\ responses = <<>>
    /\ emitIdx = 0 /\ emitted = <<>> /\ r = NoResponse /\ i = 0 /\ calls = 0
    /\ sleeps = 0 /\ api = NoApi /\ requests = <<>> /\ pc = "start"

\* the generator is suspended: not started, at the yield, finished or failed
Suspended == pc \in {"start", "yielded", "done", "error"}

\* the for loop of stream_suggestions asks _batch_sequence for the next batch
AtBatchRequestSwallowingErrors ==
    \/ pc \in {"start", "group", "error"}
    \/ pc = "yielded" /\ emitIdx = Min(Len(batch), Min(Len(prompts), Len(responses)))
AtBatchRequest ==
    \/ pc \in {"start", "group"}
    \/ pc = "yielded" /\ emitIdx = Min(Len(batch), Min(Len(prompts), Len(responses)))

\* _batch_sequence: for eg in items: batch.append(eg); if full: yield batch
PullItem ==
    /\ AtBatchRequest
    /\ consumed < Len(stream)
    /\ consumed' = consumed + 1
    /\ LET filled == Append(buf, stream[consumed + 1])
       IN  IF BatchFull(filled, batch_size)
           THEN batch' = filled /\ buf' = <<>> /\ pc' = "prompt"
           ELSE buf' = filled /\ pc' = "group" /\ UNCHANGED batch
    /\ UNCHANGED <<batch_size, openai_n, stream, prompts, responses, emitIdx, emitted,
                   r, i, calls, sleeps, api, requests>>

\* _batch_sequence: the input is exhausted; if batch: yield batch
Exhausted ==
    /\ AtBatchRequest
    /\ consumed = Len(stream)
    /\ IF buf # <<>>
       THEN batch' = buf /\ buf' = <<>> /\ pc' = "prompt"
       ELSE pc' = "done" /\ UNCHANGED <<batch, buf>>
    /\ UNCHANGED <<batch_size, openai_n, stream, consumed, prompts, responses, emitIdx,
                   emitted, r, i, calls, sleeps, api, requests>>

\* prompts = [self._get_ner_prompt(eg["text"], ...) for eg in batch]
BuildPrompts ==
    /\ pc = "prompt"
    /\ prompts' = [k \in 1..Len(batch) |-> _get_ner_prompt(batch[k], labels, examples)]
    /\ pc' = "invoke"
    /\ UNCHANGED <<batch_size, openai_n, stream, consumed, buf, batch, responses,
                   emitIdx, emitted, r, i, calls, sleeps, api, requests>>

\* _retry429: r = call_api(); i = -1
RetryCall ==
    /\ pc = "invoke"
    /\ \E mode \in ApiModes :
        /\ api' = mode
        /\ r' = ApiResponse(mode, Len(requests) + 1, 1, prompts)
    /\ i' = 0 - 1
    /\ calls' = 1
    /\ sleeps' = 0
    /\ requests' = Append(requests, [prompts |-> prompts, window |-> examples,
                                     emittedBefore |-> Len(emitted),
                                     finished |-> FALSE, status |-> 0,
                                     choices |-> <<>>])
    /\ pc' = "retry"
    /\ UNCHANGED <<batch_size, openai_n, stream, consumed, buf, batch, prompts,
                   responses, emitIdx, emitted>>

\* _retry429: one iteration of the while loop: time.sleep(timeout_s); i += 1
RetrySleep ==
    /\ pc = "retry"
    /\ RetryAgain(i, openai_n, r)
    /\ sleeps' = sleeps + 1
    /\ i' = i + 1
    /\ UNCHANGED <<batch_size, openai_n, stream, consumed, buf, batch, prompts,
                   responses, emitIdx, emitted, r, calls, api, requests, pc>>

\* _retry429: return r
RetryReturn ==
    /\ pc = "retry"
    /\ ~RetryAgain(i, openai_n, r)
    /\ requests' = [requests EXCEPT ![Len(requests)] =
                        [@ EXCEPT !.finished = TRUE, !.status = r.status,
                                  !.choices = r.choices]]
    /\ pc' = "status"
    /\ UNCHANGED <<batch_size, openai_n, stream, consumed, buf, batch, prompts,
                   responses, emitIdx, emitted, r, i, calls, sleeps, api>>

\* _get_ner_response: r.raise_for_status(); return the choices' texts.
\* The locals of _retry429 and the response are gone once it returns or raises.
RaiseForStatus ==
    /\ pc = "status"
    /\ IF Raises(r)
       THEN pc' = "error" /\ UNCHANGED <<responses, emitIdx>>
       ELSE /\ responses' = [k \in 1..Len(prompts) |-> r.choices[k]]
            /\ emitIdx' = 0
            /\ pc' = "merge"
    /\ r' = NoResponse /\ i' = 0 /\ calls' = 0 /\ sleeps' = 0 /\ api' = NoApi
    /\ UNCHANGED <<batch_size, openai_n, stream, consumed, buf, batch, prompts,
                   emitted, requests>>

\* for eg, prompt, response in zip(batch, prompts, responses): ...; yield eg
Emit ==
    /\ pc \in {"merge", "yielded"}
    /\ emitIdx < Min(Len(batch), Min(Len(prompts), Len(responses)))
    /\ emitIdx' = emitIdx + 1
    /\ emitted' = Append(emitted,
            [text     |-> batch[emitIdx + 1],
             prompt   |-> ZippedPrompt(prompts, emitIdx + 1, batch[emitIdx + 1],
                                       labels, examples),
             response |-> ZippedResponse(responses, emitIdx + 1),
             windowAtYield |-> examples])
    /\ pc' = "yielded"
    /\ UNCHANGED <<batch_size, openai_n, stream, consumed, buf, batch, prompts,
                   responses, r, i, calls, sleeps, api, requests>>

\* reviewed batches the host hands to update() while the stream is consumed
StreamReviews ==
    { <<item>> : item \in {it \in ReviewedItems : is_flagged(it) \/ it.answer = "reject"} }

\* the host calls update() between two next() calls on the stream
MaxStreamAdds == 2   \* add_example calls followed while a stream is consumed

UpdateWhileSuspended ==
    /\ Suspended
    /\ Len(added) < MaxStreamAdds
    /\ \E reviewed \in StreamReviews : update(reviewed)

\* the recipe runs with no example file and an empty dataset
ServeInit ==
    /\ labels = [k \in 1..Len(ConfigLabels) |-> _normalize_label(ConfigLabels[k])]
    /\ max_examples \in 0..MaxCap
    /\ examples = <<>>
    /\ added = <<>>
    /\ lastUpdate = NoUpdate
    /\ spc = "serving"

(***************************************************************************)
(* Properties of the batch pipeline                                        *)
(***************************************************************************)
\* the batch (1, 2, ...) the j-th input item falls in, and its place in it
BatchOf(j) == ((j - 1) \div batch_size) + 1
PlaceOf(j) == ((j - 1) % batch_size) + 1

\* C1: when the API answers 429 to the first k calls of a request (k <= n) and
\* OK afterwards, _retry429 re-issues the request after each 429 and returns the
\* OK response.
C1_RetryReturnsOK ==
    (pc = "status" /\ ~api.persistent /\ api.k429 <= openai_n /\ api.final = OK)
        => /\ r.status = OK
           /\ calls = api.k429 + 1

\* C9: when the API answers 429 to every call, _retry429 makes a bounded number
\* of calls and sleeps and returns the last 429 response as it received it.
C9_BoundedRetry ==
    (pc \in {"retry", "status"} /\ api.persistent)
        => /\ calls <= openai_n + 1
           /\ sleeps <= openai_n + 1
           /\ i <= openai_n
           /\ (pc = "status" =>
                  /\ r = ApiResponse(api, Len(requests), calls, prompts)
                  /\ r.status = RateLimited)

\* C9 witness: n = 1, every response 429, _retry429 has returned after sleeping
C9_Witness ==
    /\ pc = "status"
    /\ api.persistent
    /\ openai_n = 1
    /\ sleeps >= 1
    /\ r.status = RateLimited

\* C5: every prompt of a batch carries the few-shot window as it was when the
\* batch's prompts were built, whatever update() did between the yields of the
\* batch's items.
C5_BatchSnapshot ==
    /\ \A k \in 1..Len(requests) : \A p \in 1..Len(requests[k].prompts) :
           requests[k].prompts[p].examples = requests[k].window
    /\ \A j \in 1..Len(emitted) :
           emitted[j].prompt.examples = requests[BatchOf(j)].window
    /\ \A j, l \in 1..Len(emitted) :
           BatchOf(j) = BatchOf(l) => emitted[j].prompt.examples = emitted[l].prompt.examples

\* C5 witness: update() changed the window between the yields of two items of
\* one batch, and a later batch was built from the changed window
C5_Witness ==
    /\ Len(emitted) = 3
    /\ BatchOf(1) = BatchOf(2)
    /\ emitted[1].windowAtYield # emitted[2].windowAtYield
    /\ emitted[2].prompt.examples = emitted[1].windowAtYield
    /\ BatchOf(3) # BatchOf(2)
    /\ emitted[3].prompt.examples = emitted[2].windowAtYield

\* C7: requests carry consecutive chunks of batch_size items (the last may be
\* shorter, none is empty), a chunk is requested only after the chunks before it
\* were emitted in full, and the outputs are the inputs in order, each with its
\* own prompt and the completion at its place in its batch.
C7_BatchingAndOrder ==
    /\ \A k \in 1..Len(requests) :
        /\ Len(requests[k].prompts) = Min(batch_size, Len(stream) - (k - 1) * batch_size)
        /\ Len(requests[k].prompts) >= 1
        /\ requests[k].emittedBefore = (k - 1) * batch_size
        /\ \A p \in 1..Len(requests[k].prompts) :
               requests[k].prompts[p].text = stream[(k - 1) * batch_size + p]
    /\ Len(emitted) <= Len(stream)
    /\ \A j \in 1..Len(emitted) :
        /\ emitted[j].text = stream[j]
        /\ BatchOf(j) <= Len(requests)
        /\ emitted[j].prompt = requests[BatchOf(j)].prompts[PlaceOf(j)]
        /\ emitted[j].prompt.text = stream[j]
        /\ emitted[j].response = requests[BatchOf(j)].choices[PlaceOf(j)]
    /\ (pc = "done" => Len(emitted) = Len(stream))

\* C7 witness: three items in batches of two: a full chunk and a shorter last one
C7_Witness ==
    /\ pc = "done"
    /\ batch_size = 2
    /\ Len(stream) = 3
    /\ Len(requests) = 2
    /\ Len(emitted) = 3

\* a request that ended with a status outside 2xx
Failed(k) ==
    requests[k].finished /\ ~(requests[k].status >= 200 /\ requests[k].status < 300)

\* in a state after such a request: the run has failed at that request, nothing
\* of its batch was emitted and all items of the batches before it were
C8_NoPartialOutput ==
    \A k \in 1..Len(requests) :
        (Failed(k) /\ pc # "status") =>
            /\ pc = "error"
            /\ k = Len(requests)
            /\ Len(emitted) = requests[k].emittedBefore
            /\ Len(emitted) = (k - 1) * batch_size
            /\ \A j \in 1..Len(emitted) : emitted[j].text = stream[j]

\* C8: a batch request that ends with a non-2xx status fails the run: no item
\* of that batch is emitted, the items of the earlier batches have all been
\* emitted in order, and nothing is emitted or requested afterwards.
C8_FatalBatchError ==
    /\ []C8_NoPartialOutput
    /\ [][pc = "error" => (pc' = "error" /\ emitted' = emitted /\ requests' = requests)]_vars

\* C8 witness: the second batch fails on rate limiting after the first batch
\* was emitted
C8_Witness ==
    /\ pc = "error"
    /\ Len(requests) = 2
    /\ requests[2].status = RateLimited
    /\ Len(emitted) = batch_size
    /\ batch_size = 2

(***************************************************************************)
(* SpecParse: parse_response applied to every short response text          *)
(***************************************************************************)
MaxResp == 5
RespChars == {"a", "A", " ", ":", ",", "\n"}

RECURSIVE StringsUpTo(_, _)
StringsUpTo(chars, n) ==
    IF n = 0 THEN {<<>>}
    ELSE LET shorter == StringsUpTo(chars, n - 1)
         IN  shorter \cup {Append(s, c) : s \in {t \in shorter : Len(t) = n - 1}, c \in chars}

ParseIdle ==
    /\ ptext = <<>> /\ plines = <<>> /\ output = <<>> /\ outLines = <<>>
    /\ ppc = "idle"

ParseInit ==
    /\ ptext \in StringsUpTo(RespChars, MaxResp)
    /\ plines = <<>>
    /\ output = <<>>
    /\ outLines = <<>>
    /\ ppc = "call"

\* output = []; for line in text.strip().split("\n"):
ParseCall ==
    /\ ppc = "call"
    /\ plines' = ResponseLines(ptext)
    /\ output' = <<>>
    /\ outLines' = <<>>
    /\ ppc' = "loop"
    /\ UNCHANGED <<ptext, storeVars, pipeVars, alignVars, findVars>>

\* one iteration of the loop body
ParseStep ==
    /\ ppc = "loop"
    /\ plines # <<>>
    /\ output' = output \o ParseLine(Head(plines))
    /\ outLines' = outLines \o [k \in 1..Len(ParseLine(Head(plines))) |-> Head(plines)]
    /\ plines' = Tail(plines)
    /\ UNCHANGED <<ptext, ppc, storeVars, pipeVars, alignVars, findVars>>

\* return output
ParseReturn ==
    /\ ppc = "loop"
    /\ plines = <<>>
    /\ ppc' = "returned"
    /\ UNCHANGED <<ptext, plines, output, outLines, storeVars, pipeVars, alignVars, findVars>>

\* C10: every emitted (label, phrases) pair has the case-folded, trimmed text
\* before the first colon of its line as label and a non-empty list of trimmed,
\* non-empty phrases; lines without a colon or with an empty part after the
\* colon emit nothing.
C10_ParserWellFormed ==
    /\ Len(outLines) = Len(output)
    /\ \A k \in 1..Len(output) :
        /\ Contains(outLines[k], ":")
        /\ Strip(SplitFirst(outLines[k], ":")[2]) # <<>>
        /\ output[k].label = Lower(Strip(SplitFirst(outLines[k], ":")[1]))
        /\ output[k].phrases # <<>>
        /\ \A j \in 1..Len(output[k].phrases) :
            /\ output[k].phrases[j] # <<>>
            /\ Strip(output[k].phrases[j]) = output[k].phrases[j]

(***************************************************************************)
(* _find_substrings                                                        *)
(***************************************************************************)
\* text[at:at+len(sub)] == sub, at 0-based
OccursAt(text, sub, at) ==
    /\ at + Len(sub) <= Len(text)
    /\ \A k \in 1..Len(sub) : text[at + k] = sub[k]

\* str.find(sub, search_from) for a non-empty sub: lowest 0-based index or -1
Find(text, sub, search_from) ==
    IF \E at \in search_from..(Len(text) - Len(sub)) : OccursAt(text, sub, at)
    THEN CHOOSE at \in search_from..(Len(text) - Len(sub)) :
             /\ OccursAt(text, sub, at)
             /\ \A before \in search_from..(at - 1) : ~OccursAt(text, sub, before)
    ELSE 0 - 1

\* _unique: remove duplicates without changing order
RECURSIVE UniqueFrom(_, _)
UniqueFrom(items, seen) ==
    IF items = <<>> THEN <<>>
    ELSE IF Head(items) \in seen THEN UniqueFrom(Tail(items), seen)
    ELSE <<Head(items)>> \o UniqueFrom(Tail(items), seen \cup {Head(items)})

\* _unique without the `seen` test
_unique_keeping_duplicates(items) == items

_unique(items) == UniqueFrom(items, {})

\* the `while True` loop of _find_substrings for one substring
RECURSIVE FindAll(_, _, _, _)
FindAll(text, substring, search_from, single_match) ==
    LET start == Find(text, substring, search_from)
    IN  IF start = 0 - 1 THEN <<>>
        ELSE <<[start |-> start, end |-> start + Len(substring)]>>
                 \o (IF single_match THEN <<>>
                     ELSE FindAll(text, substring, start + Len(substring), single_match))

RECURSIVE FindEach(_, _, _)
FindEach(text, substrings, single_match) ==
    IF substrings = <<>> THEN <<>>
    ELSE FindAll(text, Head(substrings), 0, single_match)
             \o FindEach(text, Tail(substrings), single_match)

_find_substrings(text, substrings, case_sensitive, single_match) ==
    LET nonempty == SelectSeq(substrings, LAMBDA sub : sub # <<>>)
        txt      == IF case_sensitive THEN text ELSE Lower(text)
        subs     == IF case_sensitive THEN nonempty
                    ELSE [k \in 1..Len(nonempty) |-> Lower(nonempty[k])]
    IN  FindEach(txt, _unique(subs), single_match)

(***************************************************************************)
(* Doc.char_span(alignment_mode="contract") and spacy.util.filter_spans    *)
(***************************************************************************)
\* token_by_char: 0-based index of the token holding character c, the blank
\* after a token counting to it; -1 before the first token
TokenByChar(tokens, c) ==
    IF \E t \in 1..Len(tokens) :
           tokens[t].start <= c /\ (t = Len(tokens) \/ c < tokens[t + 1].start)
    THEN (CHOOSE t \in 1..Len(tokens) :
              tokens[t].start <= c /\ (t = Len(tokens) \/ c < tokens[t + 1].start)) - 1
    ELSE 0 - 1

NoSpan == <<>>

\* doc.char_span(start_idx, end_idx, alignment_mode="contract", label=label):
\* <<>> for None, else a one-element sequence holding the Span, whose start and
\* end are token indices (end exclusive)
char_span(d, start_idx, end_idx, label) ==
    LET first == TokenByChar(d.tokens, start_idx)
        last  == TokenByChar(d.tokens, end_idx - 1)
    IN  IF first < 0 \/ last < 0 THEN NoSpan
        ELSE LET s == IF d.tokens[first + 1].start # start_idx THEN first + 1 ELSE first
                 e == IF d.tokens[last + 1].end # end_idx THEN last - 1 ELSE last
             IN  IF e < s THEN NoSpan
                 ELSE <<[label |-> label, start |-> s, end |-> e + 1,
                         start_char |-> d.tokens[s + 1].start,
                         end_char |-> d.tokens[e + 1].end]>>

\* filter_spans' sort: sorted(spans, key=(end - start, -start), reverse=True);
\* a goes before b
ShorterFirst(a, b) ==
    \/ a.end - a.start < b.end - b.start
    \/ a.end - a.start = b.end - b.start /\ a.start < b.start
SortsBefore(a, b) ==
    \/ a.end - a.start > b.end - b.start
    \/ a.end - a.start = b.end - b.start /\ a.start < b.start

\* insert x behind the elements that do not sort after it (the sorts are stable)
RECURSIVE InsertByKey(_, _)
InsertByKey(sorted, x) ==
    IF sorted = <<>> THEN <<x>>
    ELSE IF SortsBefore(x, Head(sorted)) THEN <<x>> \o sorted
    ELSE <<Head(sorted)>> \o InsertByKey(Tail(sorted), x)

RECURSIVE SortByKey(_)
SortByKey(spans) ==
    IF spans = <<>> THEN <<>>
    ELSE InsertByKey(SortByKey(SubSeq(spans, 1, Len(spans) - 1)), spans[Len(spans)])

\* result = sorted(result, key=lambda span: span.start)
RECURSIVE InsertByStart(_, _)
InsertByStart(sorted, x) ==
    IF sorted = <<>> THEN <<x>>
    ELSE IF x.start < Head(sorted).start THEN <<x>> \o sorted
    ELSE <<Head(sorted)>> \o InsertByStart(Tail(sorted), x)

RECURSIVE SortByStart(_)
SortByStart(spans) ==
    IF spans = <<>> THEN <<>>
    ELSE InsertByStart(SortByStart(SubSeq(spans, 1, Len(spans) - 1)), spans[Len(spans)])

\* seen_tokens.update(range(span.start, span.end)): the tokens a kept span takes
StartTokenOnly(span) == {span.start}
TokensOf(span) == span.start..(span.end - 1)

\* the loop of filter_spans over the sorted spans
RECURSIVE KeepUnseen(_, _)
KeepUnseen(sorted, seen_tokens) ==
    IF sorted = <<>> THEN <<>>
    ELSE LET span == Head(sorted)
         IN  IF span.start \notin seen_tokens /\ (span.end - 1) \notin seen_tokens
             THEN <<span>> \o KeepUnseen(Tail(sorted), seen_tokens \cup TokensOf(span))
             ELSE KeepUnseen(Tail(sorted), seen_tokens)

\* spacy.util.filter_spans
filter_spans(spans) == SortByStart(KeepUnseen(SortByKey(spans), {}))

(***************************************************************************)
(* OpenAISuggester.get_spacy_spans                                         *)
(***************************************************************************)
\* for start, end in offsets: span = doc.char_span(...); keep it unless None
RECURSIVE SpansOf(_, _, _)
SpansOf(d, offsets, label) ==
    IF offsets = <<>> THEN <<>>
    ELSE char_span(d, Head(offsets).start, Head(offsets).end, label)
             \o SpansOf(d, Tail(offsets), label)

\* one iteration of the loop over parse_response(response)
SpansOfPair(d, pair, lbls) ==
    LET label == _normalize_label(pair.label)
    IN  IF \E k \in 1..Len(lbls) : lbls[k] = label
        THEN SpansOf(d, _find_substrings(d.text, pair.phrases, FALSE, FALSE), label)
        ELSE <<>>

\* the loop over the parsed pairs
RECURSIVE SpansOfPairs(_, _, _)
SpansOfPairs(d, prs, lbls) ==
    IF prs = <<>> THEN <<>>
    ELSE SpansOfPair(d, Head(prs), lbls) \o SpansOfPairs(d, Tail(prs), lbls)

(***************************************************************************)
(* SpecAlign: get_spacy_spans over small documents and responses           *)
(***************************************************************************)
MaxText == 3      \* longest document text
MaxEntries == 3   \* most phrases in a response

TextChars == {"a", "B", " "}
ResponsePhrases == {<<"b">>, <<"A", "A">>, <<"A", "b">>}
\* the entries a response is made of: each phrase under label x, one phrase
\* under a label written in another case, and one under a label followed by a
\* blank ("x :b")
ResponseEntries ==
    { [label |-> <<"x">>, phrase |-> phrase] : phrase \in ResponsePhrases }
        \cup { [label |-> <<"Y">>, phrase |-> <<"A", "b">>],
               [label |-> <<"x", " ">>, phrase |-> <<"b">>] }
LabelSets == {<<<<"x">>, <<"y">>>>, <<<<"x">>>>}

\* maximal runs of non-blank characters, cut further at the offsets in cuts
RECURSIVE TokensFrom(_, _, _, _)
TokensFrom(text, cuts, at, open) ==
    \* at: 0-based offset of the next character; open: start of the token
    \* under way, or -1
    IF at = Len(text)
    THEN IF open >= 0 THEN <<[start |-> open, end |-> at]>> ELSE <<>>
    ELSE IF IsSpace(text[at + 1])
         THEN (IF open >= 0 THEN <<[start |-> open, end |-> at]>> ELSE <<>>)
                  \o TokensFrom(text, cuts, at + 1, 0 - 1)
         ELSE IF open >= 0 /\ at \in cuts
              THEN <<[start |-> open, end |-> at]>> \o TokensFrom(text, cuts, at + 1, at)
              ELSE TokensFrom(text, cuts, at + 1, IF open >= 0 THEN open ELSE at)

\* nlp.make_doc(text) for a tokenizer that splits words at the offsets in cuts
make_doc(text, cuts) == [text |-> text, tokens |-> TokensFrom(text, cuts, 0, 0 - 1)]

\* a response of the expected form: consecutive entries of one label share a
\* line, "label:phrase,phrase"
RECURSIVE RenderEntries(_, _)
RenderEntries(entries, previous) ==
    IF entries = <<>> THEN <<>>
    ELSE LET entry == Head(entries)
         IN  (IF previous = entry.label THEN <<",">> \o entry.phrase
              ELSE (IF previous = <<>> THEN <<>> ELSE <<"\n">>)
                       \o entry.label \o <<":">> \o entry.phrase)
                 \o RenderEntries(Tail(entries), entry.label)

Responses ==
    { RenderEntries(entries, <<>>) :
          entries \in SeqsUpTo(ResponseEntries, MaxEntries) }

Docs ==
    { make_doc(text, cuts) :
          text \in StringsUpTo(TextChars, MaxText), cuts \in SUBSET (1..(MaxText - 1)) }

AlignIdle ==
    /\ doc = [text |-> <<>>, tokens |-> <<>>] /\ response = <<>> /\ allowed = <<>>
    /\ pairs = <<>> /\ candidates = <<>> /\ spacy_spans = <<>> /\ apc = "idle"

AlignInit ==
    /\ doc \in Docs
    /\ response \in Responses
    /\ allowed \in LabelSets
    /\ pairs = <<>>
    /\ candidates = <<>>
    /\ spacy_spans = <<>>
    /\ apc = "call"

\* spacy_spans = []; for label, phrases in cls.parse_response(response): ...
\* (the whole loop)
AlignCollect ==
    /\ apc = "call"
    /\ pairs' = parse_response(response)
    /\ candidates' = SpansOfPairs(doc, parse_response(response), allowed)
    /\ apc' = "loop"
    /\ UNCHANGED <<doc, response, allowed, spacy_spans>>

\* spacy_spans = filter_spans(spacy_spans); return spacy_spans
AlignFilter ==
    /\ apc = "loop"
    /\ spacy_spans' = filter_spans(candidates)
    /\ apc' = "returned"
    /\ UNCHANGED <<doc, response, allowed, pairs, candidates>>

(***************************************************************************)
(* Properties of get_spacy_spans                                           *)
(***************************************************************************)
\* two spans share a token
Overlap(a, b) == a.start < b.end /\ b.start < a.end

\* two spans share a character position
OverlapChars(a, b) == a.start_char < b.end_char /\ b.start_char < a.end_char

\* length of a span, in tokens
SpanLen(a) == a.end - a.start

\* the candidate's range is the range of a returned span
Retained(c) ==
    \E k \in 1..Len(spacy_spans) :
        spacy_spans[k].start = c.start /\ spacy_spans[k].end = c.end

\* C3 as stated: of every two overlapping candidates of different lengths the
\* longer one is returned and the shorter one is not.
C3_LongerOfEveryPairWins ==
    apc = "returned" =>
        \A p, q \in 1..Len(candidates) :
            (Overlap(candidates[p], candidates[q])
                 /\ SpanLen(candidates[p]) > SpanLen(candidates[q]))
                => Retained(candidates[p]) /\ ~Retained(candidates[q])

\* C3 amended: of two overlapping candidates of different token lengths the
\* shorter is never returned along with the longer, and the longer is returned
\* unless it overlaps a returned span that is at least as long as itself.
C3_LongestSpanWins ==
    apc = "returned" =>
        \A p, q \in 1..Len(candidates) :
            (Overlap(candidates[p], candidates[q])
                 /\ SpanLen(candidates[p]) > SpanLen(candidates[q]))
                => /\ ~(Retained(candidates[p]) /\ Retained(candidates[q]))
                   /\ (~Retained(candidates[p]) =>
                          \E k \in 1..Len(spacy_spans) :
                              /\ Overlap(spacy_spans[k], candidates[p])
                              /\ SpanLen(spacy_spans[k]) >= SpanLen(candidates[p]))

\* C3 witness: two overlapping candidates of different lengths and labels, the
\* longer returned and the shorter not
C3_Witness ==
    /\ apc = "returned"
    /\ \E p, q \in 1..Len(candidates) :
        /\ Overlap(candidates[p], candidates[q])
        /\ SpanLen(candidates[p]) > SpanLen(candidates[q])
        /\ candidates[p].label # candidates[q].label
        /\ Retained(candidates[p])
        /\ ~Retained(candidates[q])

\* C4: the returned spans pairwise share no token and no character position,
\* and no range is returned twice.
C4_ConflictFree ==
    apc = "returned" =>
        \A k, l \in 1..Len(spacy_spans) :
            k # l => /\ ~Overlap(spacy_spans[k], spacy_spans[l])
                     /\ ~OverlapChars(spacy_spans[k], spacy_spans[l])
                     /\ <<spacy_spans[k].start_char, spacy_spans[k].end_char>>
                            # <<spacy_spans[l].start_char, spacy_spans[l].end_char>>

\* C4 witness: one range was produced under two labels, another candidate
\* overlaps it, and two spans are returned
C4_Witness ==
    /\ apc = "returned"
    /\ Len(spacy_spans) >= 2
    /\ \E p, q \in 1..Len(candidates) :
        /\ candidates[p].start = candidates[q].start
        /\ candidates[p].end = candidates[q].end
        /\ candidates[p].label # candidates[q].label
    /\ \E p, q \in 1..Len(candidates) :
        /\ Overlap(candidates[p], candidates[q])
        /\ SpanLen(candidates[p]) # SpanLen(candidates[q])

\* the (label, phrase) entries a response states: the parsed pairs with the
\* label trimmed and the empty phrases left out
EntriesOf(prs) ==
    UNION { { [label |-> Strip(prs[k].label), phrase |-> prs[k].phrases[j]] :
                  j \in { n \in 1..Len(prs[k].phrases) : prs[k].phrases[n] # <<>> } } :
            k \in 1..Len(prs) }

\* the places where a phrase stands in the text, letter case aside
PlacesOf(text, phrase) ==
    { at \in 0..(Len(text) - Len(phrase)) : OccursAt(Lower(text), Lower(phrase), at) }

\* every occurrence of every stated entry, as (label, start_char, end_char)
OccurrencesOf(d, prs) ==
    UNION { { [label |-> e.label, start_char |-> at, end_char |-> at + Len(e.phrase)] :
                  at \in PlacesOf(d.text, e.phrase) } : e \in EntriesOf(prs) }

OnTokenBoundaries(d, occ) ==
    /\ \E t \in 1..Len(d.tokens) : d.tokens[t].start = occ.start_char
    /\ \E t \in 1..Len(d.tokens) : d.tokens[t].end = occ.end_char

InList(x, list) == \E k \in 1..Len(list) : list[k] = x

WellFormedResponse(d, prs, lbls) ==
    /\ EntriesOf(prs) # {}
    /\ \A e \in EntriesOf(prs) :
           /\ InList(e.label, lbls)
           /\ PlacesOf(d.text, e.phrase) # {}
    /\ \A occ \in OccurrencesOf(d, prs) : OnTokenBoundaries(d, occ)
    /\ \A o1, o2 \in OccurrencesOf(d, prs) :
           o1 # o2 => (o1.end_char <= o2.start_char \/ o2.end_char <= o1.start_char)

\* C11: for a response whose every phrase stands in the text on whole-token
\* boundaries under an allowed label, no two occurrences overlapping, the
\* returned spans are exactly the occurrences, each with its label and its
\* character range, in ascending order of start offset.
C11_WellFormedRecovered ==
    (apc = "returned" /\ WellFormedResponse(doc, pairs, allowed)) =>
        /\ { [label |-> spacy_spans[k].label,
              start_char |-> spacy_spans[k].start_char,
              end_char |-> spacy_spans[k].end_char] : k \in 1..Len(spacy_spans) }
               = OccurrencesOf(doc, pairs)
        /\ Len(spacy_spans) = Cardinality(OccurrencesOf(doc, pairs))
        /\ \A k \in 1..(Len(spacy_spans) - 1) :
               spacy_spans[k].start_char < spacy_spans[k + 1].start_char

(***************************************************************************)
(* SpecFind: _find_substrings over small texts and phrase lists, called as *)
(* get_spacy_spans calls it (case_sensitive and single_match at their      *)
(* defaults)                                                               *)
(***************************************************************************)
FindPhrases == {<<>>, <<"a">>, <<"A">>, <<"b">>, <<"a", "b">>}

case_sensitive == FALSE
single_match == FALSE

FindIdle ==
    /\ ftext = <<>> /\ fsubstrings = <<>> /\ foffsets = <<>> /\ fpc = "idle"

FindInit ==
    /\ ftext \in StringsUpTo(TextChars, MaxText)
    /\ fsubstrings \in SeqsUpTo(FindPhrases, MaxEntries)
    /\ foffsets = <<>>
    /\ fpc = "call"

\* offsets = _find_substrings(text, substrings)
FindCall ==
    /\ fpc = "call"
    /\ foffsets' = _find_substrings(ftext, fsubstrings, case_sensitive, single_match)
    /\ fpc' = "returned"
    /\ UNCHANGED <<ftext, fsubstrings>>

\* C12 as stated: the offsets are returned sorted by ascending start
\* position, whatever the order of the phrases.
C12_SourceOrder ==
    fpc = "returned" =>
        \A k \in 1..(Len(foffsets) - 1) : foffsets[k].start <= foffsets[k + 1].start

\* the characters of the text an offset covers, case-folded
Matched(offset) ==
    Lower(SubSeq(ftext, offset.start + 1, offset.end))

\* position in the given list of the first phrase that folds to the string
GivenAt(string) ==
    CHOOSE k \in 1..Len(fsubstrings) :
        /\ Lower(fsubstrings[k]) = string
        /\ \A before \in 1..(k - 1) : Lower(fsubstrings[before]) # string

\* C12 amended: every offset covers an occurrence of a given phrase; the
\* offsets come phrase by phrase in the order the phrases were given, and
\* the offsets of one phrase ascend without overlapping.
C12_PhraseOrder ==
    fpc = "returned" =>
        /\ \A k \in 1..Len(foffsets) :
               /\ 0 <= foffsets[k].start /\ foffsets[k].start < foffsets[k].end
               /\ foffsets[k].end <= Len(ftext)
               /\ \E n \in 1..Len(fsubstrings) : Lower(fsubstrings[n]) = Matched(foffsets[k])
        /\ \A k \in 1..(Len(foffsets) - 1) :
               \/ GivenAt(Matched(foffsets[k])) < GivenAt(Matched(foffsets[k + 1]))
               \/ /\ Matched(foffsets[k]) = Matched(foffsets[k + 1])
                  /\ foffsets[k].end <= foffsets[k + 1].start

\* C12 witness: a later phrase stands earlier in the text, and one phrase
\* was found twice
C12_Witness ==
    /\ fpc = "returned"
    /\ \E k \in 1..(Len(foffsets) - 1) : foffsets[k].start > foffsets[k + 1].start
    /\ \E k \in 1..(Len(foffsets) - 1) : Matched(foffsets[k]) = Matched(foffsets[k + 1])

(***************************************************************************)
(* Specifications                                                          *)
(***************************************************************************)
InitStore == StoreInit /\ ParseIdle /\ PipeIdle /\ AlignIdle /\ FindIdle
NextStore ==
    \/ LoadFileExample /\ UNCHANGED <<parseVars, pipeVars, alignVars, findVars>>
    \/ FilesLoaded /\ UNCHANGED <<parseVars, pipeVars, alignVars, findVars>>
    \/ LoadDb /\ UNCHANGED <<parseVars, pipeVars, alignVars, findVars>>
    \/ Update /\ UNCHANGED <<parseVars, pipeVars, alignVars, findVars>>
SpecStore == InitStore /\ [][NextStore]_vars

Init == ServeInit /\ PipeInit /\ ParseIdle /\ AlignIdle /\ FindIdle
Next ==
    \/ PullItem /\ UNCHANGED <<parseVars, storeVars, alignVars, findVars>>
    \/ Exhausted /\ UNCHANGED <<parseVars, storeVars, alignVars, findVars>>
    \/ BuildPrompts /\ UNCHANGED <<parseVars, storeVars, alignVars, findVars>>
    \/ RetryCall /\ UNCHANGED <<parseVars, storeVars, alignVars, findVars>>
    \/ RetrySleep /\ UNCHANGED <<parseVars, storeVars, alignVars, findVars>>
    \/ RetryReturn /\ UNCHANGED <<parseVars, storeVars, alignVars, findVars>>
    \/ RaiseForStatus /\ UNCHANGED <<parseVars, storeVars, alignVars, findVars>>
    \/ Emit /\ UNCHANGED <<parseVars, storeVars, alignVars, findVars>>
    \/ UpdateWhileSuspended /\ UNCHANGED <<parseVars, pipeVars, alignVars, findVars>>
Spec == Init /\ [][Next]_vars

InitParse == ParseInit /\ StoreIdle /\ PipeIdle /\ AlignIdle /\ FindIdle
NextParse == ParseCall \/ ParseStep \/ ParseReturn
SpecParse == InitParse /\ [][NextParse]_vars
InitAlign == AlignInit /\ ParseIdle /\ StoreIdle /\ PipeIdle /\ FindIdle
NextAlign ==
    \/ AlignCollect /\ UNCHANGED <<parseVars, storeVars, pipeVars, findVars>>
    \/ AlignFilter /\ UNCHANGED <<parseVars, storeVars, pipeVars, findVars>>
SpecAlign == InitAlign /\ [][NextAlign]_vars

InitFind == FindInit /\ ParseIdle /\ StoreIdle /\ PipeIdle /\ AlignIdle
NextFind == FindCall /\ UNCHANGED <<parseVars, storeVars, pipeVars, alignVars>>
SpecFind == InitFind /\ [][NextFind]_vars
====
